---- MODULE Spec2Model ----
(***************************************************************************)
(* A model of src/main.py, the EPO patent search service: the text and     *)
(* date utilities, the OPS response parser, the live search path, the demo *)
(* fallback and the two /search handlers.                                  *)
(*                                                                         *)
(* Text is a sequence of one-character strings.  An Optional[T] value is   *)
(* None (the empty tuple) or Some(x) (the one-element tuple), so that the  *)
(* empty string Some(<<>>) and None stay different values.                 *)
(***************************************************************************)
EXTENDS Integers, Sequences, FiniteSets, TLC

None == <<>>
Some(x) == <<x>>
IsNone(o) == o = <<>>
Val(o) == o[1]

\* Python truthiness of an Optional[str]: None and "" are falsy.
Truthy(o) == ~IsNone(o) /\ Val(o) # <<>>

Min(a, b) == IF a <= b THEN a ELSE b
Max(a, b) == IF a >= b THEN a ELSE b

---------------------------------------------------------------------------
(* Characters and the str methods the code uses.                           *)

\* U+2026, the one-character truncation marker of _clip and _translate_ru.
Ellipsis == "U+2026"
\* U+2014, the placeholder title.
EmDash == "U+2014"

DigitChars == <<"0", "1", "2", "3", "4", "5", "6", "7", "8", "9">>
IsDigit(c) == \E i \in DOMAIN DigitChars : DigitChars[i] = c
DigitVal(c) == (CHOOSE i \in DOMAIN DigitChars : DigitChars[i] = c) - 1
DigitOf(k) == DigitChars[k + 1]
IsSpace(c) == c \in {" ", "\t", "\n"}

\* text[:n], Python's prefix slice (a negative n counts from the end).
Prefix(s, n) ==
  IF n >= 0 THEN SubSeq(s, 1, Min(n, Len(s)))
  ELSE SubSeq(s, 1, Max(0, Len(s) + n))

\* x or "" for an Optional[str] x.
OrEmpty(o) == IF Truthy(o) THEN Val(o) ELSE <<>>

\* x or None for a str x.
OrNone(t) == IF t = <<>> THEN None ELSE Some(t)

\* A slice bound as Python normalises it: a negative one counts from the end.
SliceIndex(i, len) == IF i >= 0 THEN Min(i, len) ELSE Max(0, len + i)

\* seq[a:b]
Slice(s, a, b) ==
  LET lo == SliceIndex(a, Len(s))
      hi == SliceIndex(b, Len(s))
  IN  IF lo >= hi THEN <<>> ELSE SubSeq(s, lo + 1, hi)

RECURSIVE LStrip(_)
LStrip(s) ==
  IF s # <<>> /\ IsSpace(Head(s)) THEN LStrip(Tail(s)) ELSE s

RECURSIVE RStrip(_)
RStrip(s) ==
  IF s # <<>> /\ IsSpace(s[Len(s)]) THEN RStrip(SubSeq(s, 1, Len(s) - 1)) ELSE s

\* str.strip()
Strip(s) == RStrip(LStrip(s))

\* str.split(): the maximal runs of non-whitespace characters, in order.
RECURSIVE SplitFrom(_, _, _)
SplitFrom(s, i, word) ==
  IF i > Len(s) THEN (IF word = <<>> THEN <<>> ELSE <<word>>)
  ELSE IF IsSpace(s[i])
       THEN (IF word = <<>> THEN <<>> ELSE <<word>>) \o SplitFrom(s, i + 1, <<>>)
       ELSE SplitFrom(s, i + 1, Append(word, s[i]))

Split(s) == SplitFrom(s, 1, <<>>)

\* " ".join(words)
RECURSIVE Join(_)
Join(words) ==
  IF words = <<>> THEN <<>>
  ELSE IF Len(words) = 1 THEN words[1]
  ELSE words[1] \o <<" ">> \o Join(Tail(words))

\* s.rsplit(" ", 1)[0]: s up to its last space, or s itself if it has none.
RsplitHead(s) ==
  LET spaces == {i \in DOMAIN s : s[i] = " "}
  IN  IF spaces = {} THEN s
      ELSE SubSeq(s, 1, (CHOOSE i \in spaces : \A j \in spaces : j <= i) - 1)

\* str.isdigit() on ASCII text: non-empty and all digits.
IsDigitStr(s) == s # <<>> /\ \A i \in DOMAIN s : IsDigit(s[i])

\* int(s) of a digit string.
RECURSIVE ParseInt(_)
ParseInt(s) ==
  IF s = <<>> THEN 0
  ELSE 10 * ParseInt(SubSeq(s, 1, Len(s) - 1)) + DigitVal(s[Len(s)])

---------------------------------------------------------------------------
(* _clip                                                                   *)

_clip(text, n) ==
  IF ~Truthy(text) THEN None
  ELSE LET t == Join(Split(Val(text)))
       IN  Some(IF Len(t) <= n THEN t
                ELSE RsplitHead(Prefix(t, n)) \o <<Ellipsis>>)

---------------------------------------------------------------------------
(* datetime.strptime, as _parse_date_safe uses it.  A format is a sequence *)
(* of directives and literals.  strptime compiles the format to a regular  *)
(* expression, takes the first match in the expression's priority order    *)
(* (re.match: anchored at the start only, alternatives tried left to       *)
(* right with backtracking), then rejects a match that leaves data         *)
(* unconverted and a year, month, day that is no calendar date.            *)

At(s, i) == IF i \in DOMAIN s THEN s[i] ELSE "EOF"

Cand(v, e) == [val |-> v, end |-> e]

\* %Y is (\d\d\d\d).
CandsY(s, p) ==
  IF \A i \in p .. p + 3 : IsDigit(At(s, i))
  THEN <<Cand(ParseInt(SubSeq(s, p, p + 3)), p + 4)>>
  ELSE <<>>

\* %m is (1[0-2]|0[1-9]|[1-9]).
CandsM(s, p) ==
  (IF At(s, p) = "1" /\ At(s, p + 1) \in {"0", "1", "2"}
   THEN <<Cand(10 + DigitVal(s[p + 1]), p + 2)>> ELSE <<>>)
  \o (IF At(s, p) = "0" /\ IsDigit(At(s, p + 1)) /\ At(s, p + 1) # "0"
      THEN <<Cand(DigitVal(s[p + 1]), p + 2)>> ELSE <<>>)
  \o (IF IsDigit(At(s, p)) /\ At(s, p) # "0"
      THEN <<Cand(DigitVal(s[p]), p + 1)>> ELSE <<>>)

\* %d is (3[0-1]|[1-2]\d|0[1-9]|[1-9]| [1-9]).
CandsD(s, p) ==
  (IF At(s, p) = "3" /\ At(s, p + 1) \in {"0", "1"}
   THEN <<Cand(30 + DigitVal(s[p + 1]), p + 2)>> ELSE <<>>)
  \o (IF At(s, p) \in {"1", "2"} /\ IsDigit(At(s, p + 1))
      THEN <<Cand(10 * DigitVal(s[p]) + DigitVal(s[p + 1]), p + 2)>> ELSE <<>>)
  \o (IF At(s, p) = "0" /\ IsDigit(At(s, p + 1)) /\ At(s, p + 1) # "0"
      THEN <<Cand(DigitVal(s[p + 1]), p + 2)>> ELSE <<>>)
  \o (IF IsDigit(At(s, p)) /\ At(s, p) # "0"
      THEN <<Cand(DigitVal(s[p]), p + 1)>> ELSE <<>>)
  \o (IF At(s, p) = " " /\ IsDigit(At(s, p + 1)) /\ At(s, p + 1) # "0"
      THEN <<Cand(DigitVal(s[p + 1]), p + 2)>> ELSE <<>>)

Cands(tok, s, p) ==
  CASE tok = "%Y" -> CandsY(s, p)
    [] tok = "%m" -> CandsM(s, p)
    [] tok = "%d" -> CandsD(s, p)
    [] OTHER -> IF At(s, p) = tok THEN <<Cand(0, p + 1)>> ELSE <<>>

Bind(acc, tok, v) ==
  CASE tok = "%Y" -> [acc EXCEPT !.year = v]
    [] tok = "%m" -> [acc EXCEPT !.month = v]
    [] tok = "%d" -> [acc EXCEPT !.day = v]
    [] OTHER -> acc

RECURSIVE RegexMatch(_, _, _, _, _)
RECURSIVE FirstMatch(_, _, _, _, _, _)
\* The regex match of fmt[k..] at position p of s: Some(fields) or None.
RegexMatch(s, p, fmt, k, acc) ==
  IF k > Len(fmt) THEN Some([acc EXCEPT !.end = p])
  ELSE FirstMatch(s, fmt, k, acc, Cands(fmt[k], s, p), 1)

FirstMatch(s, fmt, k, acc, cs, j) ==
  IF j > Len(cs) THEN None
  ELSE LET r == RegexMatch(s, cs[j].end, fmt, k + 1, Bind(acc, fmt[k], cs[j].val))
       IN  IF ~IsNone(r) THEN r ELSE FirstMatch(s, fmt, k, acc, cs, j + 1)

IsLeap(y) == (y % 4 = 0 /\ y % 100 # 0) \/ y % 400 = 0

DaysInMonth(y, m) ==
  IF m = 2 THEN (IF IsLeap(y) THEN 29 ELSE 28)
  ELSE IF m \in {4, 6, 9, 11} THEN 30 ELSE 31

datetime(y, m, d) == [year |-> y, month |-> m, day |-> d]

\* datetime.strptime(s, fmt): Some(datetime), or None where it raises.
strptime(s, fmt) ==
  LET r == RegexMatch(s, 1, fmt, 1, [year |-> 1900, month |-> 1, day |-> 1, end |-> 1])
  IN  IF IsNone(r) THEN None
      ELSE LET f == Val(r)
           IN  IF f.end # Len(s) + 1 THEN None
               ELSE IF f.year < 1 \/ f.day > DaysInMonth(f.year, f.month) THEN None
               ELSE Some(datetime(f.year, f.month, f.day))

\* The order datetime values compare in.
DateOrd(d) == d.year * 10000 + d.month * 100 + d.day

\* The candidates of _parse_date_safe, in the order it tries them.
DateFormats ==
  << <<"%Y", "%m", "%d">>,
     <<"%Y", "-", "%m", "-", "%d">>,
     <<"%Y", "%m">>,
     <<"%Y">> >>

Sentinel == datetime(1900, 1, 1)

RECURSIVE TryFormats(_, _)
TryFormats(s, k) ==
  IF k > Len(DateFormats) THEN Sentinel
  ELSE LET r == strptime(s, DateFormats[k])
       IN  IF ~IsNone(r) THEN Val(r) ELSE TryFormats(s, k + 1)

_parse_date_safe(raw) ==
  IF ~Truthy(raw) THEN Sentinel
  ELSE TryFormats(Strip(Val(raw)), 1)

Digits2(k) == <<DigitOf(k \div 10), DigitOf(k % 10)>>
Digits4(k) == Digits2(k \div 100) \o Digits2(k % 100)

\* d.strftime("%Y-%m-%d"), for the four-digit years it is applied to.
strftime_iso(d) == Digits4(d.year) \o <<"-">> \o Digits2(d.month) \o <<"-">> \o Digits2(d.day)

_fmt_date_iso(raw) ==
  LET d == _parse_date_safe(raw)
  IN  IF d.year > 1900 THEN Some(strftime_iso(d)) ELSE None

---------------------------------------------------------------------------
(* _translate_ru.  The translator is an external service: `outcome` is     *)
(* what one call to it does, [raises |-> BOOLEAN, t |-> Optional text].    *)

TR_LIMIT == 500

\* Whether _translate_ru(text) calls the translator at all.
TranslateCalls(text) == Truthy(text)

_translate_ru(text, outcome) ==
  IF ~Truthy(text) THEN None
  ELSE IF outcome.raises THEN None
  ELSE IF Truthy(outcome.t) /\ Len(Val(outcome.t)) > TR_LIMIT
       THEN Some(RsplitHead(Prefix(Val(outcome.t), TR_LIMIT)) \o <<Ellipsis>>)
       ELSE outcome.t

---------------------------------------------------------------------------
(* _parse_ops_xml.  An upstream document is                                *)
(*   [wellFormed, count, size, nested, docs]                               *)
(* where count and size are the root's total-result-count and              *)
(* total-result-size attributes, nested is the text of the first           *)
(* ops:total-result-count element, and docs are the ex:exchange-document   *)
(* nodes in document order.  A node is                                     *)
(*   [country, docnum, kind, date, titles, abstracts]                      *)
(* with the three attributes Optional, date the text of the first ex:date  *)
(* of the first ex:document-id (None when any of the three is missing),    *)
(* titles a sequence of [lang, text] and abstracts a sequence of           *)
(* [lang, ps], ps the Optional texts of the abstract's ex:p elements.      *)

ABSTRACT_LIMIT == 1200

LinkPrefix == <<"https://worldwide.espacenet.com/patent/search?q=pn%3D">>

Lower(lang) == IF lang \in {"en", "EN", "En", "eN"} THEN "en" ELSE lang

\* A PatentItem as the code constructs it: the fields it never sets
\* (applicants, inventors, ipc, cpc, linkPdf) keep their defaults and are
\* left out.
PatentItem(pn, kind, country, pub_date, title, abstract, link) ==
  [publicationNumber |-> pn,
   kindCode          |-> kind,
   country           |-> country,
   publicationDate   |-> pub_date,
   titleOriginal     |-> title,
   titleRu           |-> None,
   abstractOriginal  |-> abstract,
   abstractRu        |-> None,
   linkEspacenet     |-> link]

\* The total: the first numeric root attribute, else the nested element.
ParseTotal(xml) ==
  LET fromAttrs ==
        IF Truthy(xml.count) /\ IsDigitStr(Val(xml.count)) THEN ParseInt(Val(xml.count))
        ELSE IF Truthy(xml.size) /\ IsDigitStr(Val(xml.size)) THEN ParseInt(Val(xml.size))
        ELSE 0
  IN  IF fromAttrs = 0 /\ Truthy(xml.nested) /\ IsDigitStr(Val(xml.nested))
      THEN ParseInt(Val(xml.nested))
      ELSE fromAttrs

\* The title loop: title_val after the titles from index k on.
RECURSIVE SelectTitle(_, _, _)
SelectTitle(titles, k, title_val) ==
  IF k > Len(titles) THEN title_val
  ELSE LET cand  == Strip(OrEmpty(titles[k].text))
           first == IF ~Truthy(title_val) THEN Some(cand) ELSE title_val
       IN  IF Lower(titles[k].lang) = "en" /\ cand # <<>> THEN Some(cand)
           ELSE SelectTitle(titles, k + 1, first)

\* The parts of one abstract: the stripped texts of its non-empty paragraphs.
RECURSIVE AbstractParts(_)
AbstractParts(ps) ==
  IF ps = <<>> THEN <<>>
  ELSE (IF Truthy(Head(ps)) THEN <<Strip(Val(Head(ps)))>> ELSE <<>>)
       \o AbstractParts(Tail(ps))

\* The abstract loop: abstract_val after the abstracts from index k on.
RECURSIVE SelectAbstract(_, _, _)
SelectAbstract(abstracts, k, abstract_val) ==
  IF k > Len(abstracts) THEN abstract_val
  ELSE LET joined == Strip(Join(AbstractParts(abstracts[k].ps)))
           first  == IF ~Truthy(abstract_val) /\ joined # <<>> THEN Some(joined)
                     ELSE abstract_val
       IN  IF Lower(abstracts[k].lang) = "en" /\ joined # <<>> THEN Some(joined)
           ELSE SelectAbstract(abstracts, k + 1, first)

\* One ex:exchange-document node to its PatentItem.
ParseDoc(doc) ==
  LET country  == Strip(OrEmpty(doc.country))
      docnum   == Strip(OrEmpty(doc.docnum))
      kind     == Strip(OrEmpty(doc.kind))
      pn       == country \o docnum \o kind
      pub_date == IF Truthy(doc.date) THEN _fmt_date_iso(doc.date) ELSE None
      selected == SelectTitle(doc.titles, 1, None)
      title    == IF ~Truthy(selected) THEN <<EmDash>> ELSE Val(selected)
      abstract == _clip(SelectAbstract(doc.abstracts, 1, None), ABSTRACT_LIMIT)
  IN  PatentItem(pn, OrNone(kind), OrNone(country), pub_date, title, abstract,
                 LinkPrefix \o pn)

\* The key both sorts use.
SortKey(it) == DateOrd(_parse_date_safe(it.publicationDate))

\* list.sort(key=..., reverse=True): descending and stable.
InsertDesc(sorted, it) ==
  LET ge == {i \in DOMAIN sorted : SortKey(sorted[i]) >= SortKey(it)}
      k  == Cardinality(ge)
  IN  SubSeq(sorted, 1, k) \o <<it>> \o SubSeq(sorted, k + 1, Len(sorted))

RECURSIVE SortNewestFirst(_)
SortNewestFirst(its) ==
  IF its = <<>> THEN <<>>
  ELSE InsertDesc(SortNewestFirst(SubSeq(its, 1, Len(its) - 1)), its[Len(its)])

_parse_ops_xml(xml) ==
  IF ~xml.wellFormed THEN [items |-> <<>>, total |-> 0]
  ELSE [items |-> SortNewestFirst([i \in DOMAIN xml.docs |-> ParseDoc(xml.docs[i])]),
        total |-> ParseTotal(xml)]

---------------------------------------------------------------------------
(* The live path's response and the demo fallback.                         *)

SearchResponse(total_, page_, size_, nextPage_, items_) ==
  [total |-> total_, page |-> page_, size |-> size_,
   nextPage |-> nextPage_, items |-> items_]

\* The tail of fetch_real_patents: nextPage and the response.
live_response(items_, total_, page_, size_) ==
  LET start     == (page_ - 1) * size_ + 1
      next_page == IF (start - 1 + Len(items_)) < total_ THEN Some(page_ + 1) ELSE None
  IN  SearchResponse(total_, page_, size_, next_page, Prefix(items_, size_))

DemoText(name) == <<name>>

\* The three records of _demo_pool, as written.  A title or abstract is
\* kept as one token: the code reads only whether it is empty.
DemoSeed ==
  << PatentItem(DemoText("CN120398169A"), Some(DemoText("A")), Some(DemoText("CN")),
                Some(strftime_iso(datetime(2025, 8, 1))),
                DemoText("Solar seawater desalination device for evaporation driven by immersed heat pipe"),
                Some(DemoText("The invention provides a solar seawater desalination device for evaporation driven by an immersed heat pipe...")),
                LinkPrefix \o DemoText("CN120398169A")),
     PatentItem(DemoText("WO2025167351A1"), Some(DemoText("A1")), Some(DemoText("WO")),
                Some(strftime_iso(datetime(2025, 6, 12))),
                DemoText("Solar desalination and purification apparatus"),
                Some(DemoText("An apparatus combining solar thermal collection with multi-effect evaporation for brine desalination...")),
                LinkPrefix \o DemoText("WO2025167351A1")),
     PatentItem(DemoText("US12421136B1"), Some(DemoText("B1")), Some(DemoText("US")),
                Some(strftime_iso(datetime(2022, 1, 10))),
                DemoText("Solar desalination system"),
                Some(DemoText("A system for solar-driven desalination using integrated photothermal and membrane modules...")),
                LinkPrefix \o DemoText("US12421136B1")) >>

\* The two translations of one record (the loop body of both paths).
TranslateItem(it, o1, o2) ==
  [it EXCEPT !.titleRu    = _translate_ru(Some(it.titleOriginal), o1),
             !.abstractRu = _translate_ru(it.abstractOriginal, o2)]

\* The translator calls that loop body makes for one record.
CountItem(c, it) ==
  [title    |-> c.title + (IF TranslateCalls(Some(it.titleOriginal)) THEN 1 ELSE 0),
   abstract |-> c.abstract + (IF TranslateCalls(it.abstractOriginal) THEN 1 ELSE 0)]

NoCalls(its) == [i \in DOMAIN its |-> [title |-> 0, abstract |-> 0]]

\* _demo_pool, given what the translator does on each of its calls.
_demo_pool(outs) ==
  LET demo == SortNewestFirst(DemoSeed)
  IN  [i \in DOMAIN demo |-> TranslateItem(demo[i], outs[i][1], outs[i][2])]

\* _paginate_demo with the live path's 1-based start.
paginate_demo_one_based(pool_, page_, size_) ==
  LET total_ == Len(pool_)
      start  == (page_ - 1) * size_ + 1
      end    == start + size_
      nextp  == IF end < total_ THEN Some(page_ + 1) ELSE None
  IN  SearchResponse(total_, page_, size_, nextp, Slice(pool_, start, end))

\* _paginate_demo, from the pool on.
_paginate_demo(pool_, page_, size_) ==
  LET total_ == Len(pool_)
      start  == (page_ - 1) * size_
      end    == start + size_
      nextp  == IF end < total_ THEN Some(page_ + 1) ELSE None
  IN  SearchResponse(total_, page_, size_, nextp, Slice(pool_, start, end))

---------------------------------------------------------------------------
(* What the environment may do and what a caller may ask.                  *)

MaxPage == 2
MaxSize == 3
MaxDocs == 2
DEFAULT_PAGE == 1
DEFAULT_SIZE == 25

Txt1(a) == <<a>>
Txt2(a, b) == <<a, b>>

\* A query parameter or payload field: absent, or a value.
PageInputs == {None} \cup {Some(p) : p \in 0 .. MaxPage}
SizeInputs == {None} \cup {Some(z) : z \in (0 - 1) .. MaxSize}
                     \cup {Some(DEFAULT_SIZE + 1)}

Credentials == {None, Some(Txt1("k"))}

\* One token exchange: it raises (transport, status), or returns the
\* access_token of the reply, which may be missing.
TokenOutcomes ==
  {[raises |-> TRUE, token |-> None],
   [raises |-> FALSE, token |-> None],
   [raises |-> FALSE, token |-> Some(Txt1("tok"))]}

\* One translator call.
TrOutcomes ==
  {[raises |-> TRUE, t |-> None],
   [raises |-> FALSE, t |-> Some(Txt2("r", "u"))]}

DocFull ==
  [country |-> Some(Txt2("E", "P")), docnum |-> Some(Txt1("1")),
   kind |-> Some(Txt2("A", "1")),
   date |-> Some(<<"2", "0", "2", "5", "0", "1", "0", "5">>),
   titles |-> <<[lang |-> "de", text |-> Some(Txt1("t"))],
                [lang |-> "EN", text |-> Some(<<" ", "T">>)]>>,
   abstracts |-> <<[lang |-> "en", ps |-> <<Some(<<"a", " ", " ", "b">>), None>>]>>]

DocBare ==
  [country |-> None, docnum |-> None, kind |-> None, date |-> None,
   titles |-> <<>>, abstracts |-> <<>>]

DocNoTitle ==
  [country |-> Some(Txt2("U", "S")), docnum |-> Some(Txt1("2")), kind |-> None,
   date |-> Some(<<"2", "0", "2", "4">>),
   titles |-> <<[lang |-> "", text |-> None]>>,
   abstracts |-> <<>>]

FlowDocs == {DocFull, DocBare, DocNoTitle}

SeqsUpTo(S, n) == UNION {[1 .. k -> S] : k \in 0 .. n}

\* The total-count parts of a reply's root.
Roots ==
  {[count |-> None, size |-> None, nested |-> None],
   [count |-> Some(Txt1("3")), size |-> None, nested |-> None],
   [count |-> Some(Txt1("x")), size |-> Some(Txt1("1")), nested |-> None],
   [count |-> Some(Txt1("0")), size |-> Some(Txt1("5")), nested |-> Some(Txt1("2"))]}

Xml(root, docs_) ==
  [wellFormed |-> TRUE, count |-> root.count, size |-> root.size,
   nested |-> root.nested, docs |-> docs_]

Unparseable ==
  [wellFormed |-> FALSE, count |-> None, size |-> None, nested |-> None, docs |-> <<>>]

\* The bodies a successful search call may return.
XmlReplies ==
  {Unparseable} \cup {Xml(r, ds) : r \in Roots, ds \in SeqsUpTo(FlowDocs, MaxDocs)}

---------------------------------------------------------------------------
(* The request flow: one /search request, step by step.                    *)

VARIABLES
  OPS_KEY, OPS_SECRET,    \* the module-level credentials
  pc,                     \* where the handler is
  route,                  \* "GET" or "POST"
  page, size,             \* the handler's page and size
  token,                  \* fetch_real_patents: token
  range_header,           \* _ops_search_raw: the Range sent, <<start, end>>
  xml_text,               \* fetch_real_patents: xml_text
  items, total,           \* fetch_real_patents: items, total
  idx,                    \* the translation loops' position
  pool,                   \* _demo_pool: demo
  resp,                   \* the response returned, Some(SearchResponse)
  source,                 \* which path built resp: "live" or "demo"
  tokenCalls,             \* token exchanges made for this request
  searchCalls,            \* upstream search calls made for this request
  trLive, trDemo          \* translator calls made, per record and field

VARIABLES
  walkSize,               \* the page walk: the size every request asks for
  walkPage,               \* the page the next request asks for
  walkLog                 \* the responses so far, in order

VARIABLES
  raw,                    \* the date string under test
  parsed,                 \* Some(_parse_date_safe(raw)) once computed
  iso                     \* Some(_fmt_date_iso(raw)) once computed

VARIABLES
  parse_in,               \* the upstream document handed to the parser
  parse_out               \* Some(_parse_ops_xml(parse_in)) once computed

VARIABLES
  clip_text, clip_n,      \* the arguments of _clip
  clipped,                \* Some(_clip(clip_text, clip_n)) once computed
  reclipped               \* Some(_clip(that result, clip_n)) once computed

walkVars == <<walkSize, walkPage, walkLog>>
dateVars == <<raw, parsed, iso>>
parseVars == <<parse_in, parse_out>>
clipVars == <<clip_text, clip_n, clipped, reclipped>>
nonFlowVars == <<walkVars, dateVars, parseVars, clipVars>>

WalkIdle == walkSize = 0 /\ walkPage = 0 /\ walkLog = <<>>
DateIdle == raw = None /\ parsed = None /\ iso = None
ParseIdle == parse_in = None /\ parse_out = None
ClipIdle == clip_text = None /\ clip_n = 0 /\ clipped = None /\ reclipped = None

flowVars ==
  <<OPS_KEY, OPS_SECRET, pc, route, page, size, token, range_header, xml_text,
    items, total, idx, pool, resp, source, tokenCalls, searchCalls, trLive, trDemo>>

FlowIdle ==
  /\ pc = "idle" /\ route = "none" /\ page = 0 /\ size = 0
  /\ token = None /\ range_header = None /\ xml_text = None
  /\ items = <<>> /\ total = 0 /\ idx = 0 /\ pool = <<>>
  /\ resp = None /\ source = "none"
  /\ tokenCalls = 0 /\ searchCalls = 0 /\ trLive = <<>> /\ trDemo = <<>>

FlowInit ==
  /\ OPS_KEY \in Credentials
  /\ OPS_SECRET \in Credentials
  /\ FlowIdle

\* GET /search: page and size default to 1 and 25.
search_get ==
  /\ pc = "idle"
  /\ \E p \in PageInputs, z \in SizeInputs :
       /\ page' = (IF IsNone(p) THEN DEFAULT_PAGE ELSE Val(p))
       /\ size' = (IF IsNone(z) THEN DEFAULT_SIZE ELSE Val(z))
  /\ route' = "GET"
  /\ pc' = "token"
  /\ UNCHANGED nonFlowVars
  /\ UNCHANGED <<OPS_KEY, OPS_SECRET, token, range_header, xml_text, items, total,
                 idx, pool, resp, source, tokenCalls, searchCalls, trLive, trDemo>>

\* POST /search: payload.get("page", 1), payload.get("size", 25).
search_post ==
  /\ pc = "idle"
  /\ \E p \in PageInputs, z \in SizeInputs :
       /\ page' = (IF IsNone(p) THEN DEFAULT_PAGE ELSE Val(p))
       /\ size' = (IF IsNone(z) THEN DEFAULT_SIZE ELSE Val(z))
  /\ route' = "POST"
  /\ pc' = "token"
  /\ UNCHANGED nonFlowVars
  /\ UNCHANGED <<OPS_KEY, OPS_SECRET, token, range_header, xml_text, items, total,
                 idx, pool, resp, source, tokenCalls, searchCalls, trLive, trDemo>>

\* _get_ops_token with a credential missing: None, and no network call.
GetTokenNoCredentials ==
  /\ pc = "token"
  /\ ~Truthy(OPS_KEY) \/ ~Truthy(OPS_SECRET)
  /\ token' = None
  /\ pc' = "demo"
  /\ UNCHANGED nonFlowVars
  /\ UNCHANGED <<OPS_KEY, OPS_SECRET, route, page, size, range_header, xml_text,
                 items, total, idx, pool, resp, source, tokenCalls, searchCalls,
                 trLive, trDemo>>

\* A token exchange that is tried again when it fails.
GetTokenExchangeRetrying ==
  /\ pc = "token"
  /\ Truthy(OPS_KEY) /\ Truthy(OPS_SECRET)
  /\ tokenCalls' = tokenCalls + 1
  /\ \E o \in TokenOutcomes :
       /\ token' = (IF o.raises THEN None ELSE o.token)
       /\ pc' = (IF ~o.raises /\ Truthy(o.token) THEN "search" ELSE "token")
  /\ UNCHANGED nonFlowVars
  /\ UNCHANGED <<OPS_KEY, OPS_SECRET, route, page, size, range_header, xml_text,
                 items, total, idx, pool, resp, source, searchCalls, trLive, trDemo>>

\* _get_ops_token with both credentials: one exchange; fetch_real_patents
\* goes on with a truthy token and returns None otherwise.
GetTokenExchange ==
  /\ pc = "token"
  /\ Truthy(OPS_KEY) /\ Truthy(OPS_SECRET)
  /\ tokenCalls' = tokenCalls + 1
  /\ \E o \in TokenOutcomes :
       /\ token' = (IF o.raises THEN None ELSE o.token)
       /\ pc' = (IF ~o.raises /\ Truthy(o.token) THEN "search" ELSE "demo")
  /\ UNCHANGED nonFlowVars
  /\ UNCHANGED <<OPS_KEY, OPS_SECRET, route, page, size, range_header, xml_text,
                 items, total, idx, pool, resp, source, searchCalls, trLive, trDemo>>

\* _ops_search_raw: one GET with the Range of the window; it raises
\* (transport, status >= 400) or returns the body.
_ops_search_raw ==
  /\ pc = "search"
  /\ searchCalls' = searchCalls + 1
  /\ range_header' = Some(<<(page - 1) * size + 1, (page - 1) * size + 1 + size - 1>>)
  /\ \/ /\ xml_text' = None
        /\ pc' = "demo"
     \/ /\ \E x \in XmlReplies : xml_text' = Some(x)
        /\ pc' = "parse"
  /\ UNCHANGED nonFlowVars
  /\ UNCHANGED <<OPS_KEY, OPS_SECRET, route, page, size, token, items, total, idx,
                 pool, resp, source, tokenCalls, trLive, trDemo>>

\* items, total = _parse_ops_xml(xml_text)
ParseReply ==
  /\ pc = "parse"
  /\ LET r == _parse_ops_xml(Val(xml_text))
     IN  /\ items' = r.items
         /\ total' = r.total
         /\ trLive' = NoCalls(r.items)
  /\ idx' = 1
  /\ pc' = "translate"
  /\ UNCHANGED nonFlowVars
  /\ UNCHANGED <<OPS_KEY, OPS_SECRET, route, page, size, token, range_header,
                 xml_text, pool, resp, source, tokenCalls, searchCalls, trDemo>>

\* One turn of fetch_real_patents' translation loop.
TranslateLive ==
  /\ pc = "translate"
  /\ idx <= Len(items)
  /\ \E o1 \in TrOutcomes, o2 \in TrOutcomes :
       items' = [items EXCEPT ![idx] = TranslateItem(items[idx], o1, o2)]
  /\ trLive' = [trLive EXCEPT ![idx] = CountItem(trLive[idx], items[idx])]
  /\ idx' = idx + 1
  /\ UNCHANGED nonFlowVars
  /\ UNCHANGED <<OPS_KEY, OPS_SECRET, pc, route, page, size, token, range_header,
                 xml_text, total, pool, resp, source, tokenCalls, searchCalls, trDemo>>

\* The loop is over: fetch_real_patents returns its SearchResponse, which
\* is truthy (a pydantic model defines neither __bool__ nor __len__), so
\* the handler returns it.
ReturnLive ==
  /\ pc = "translate"
  /\ idx > Len(items)
  /\ resp' = Some(live_response(items, total, page, size))
  /\ source' = "live"
  /\ pc' = "done"
  /\ UNCHANGED nonFlowVars
  /\ UNCHANGED <<OPS_KEY, OPS_SECRET, route, page, size, token, range_header,
                 xml_text, items, total, idx, pool, tokenCalls, searchCalls,
                 trLive, trDemo>>

\* fetch_real_patents returned None: _paginate_demo builds and sorts the pool.
DemoPoolSort ==
  /\ pc = "demo"
  /\ pool' = SortNewestFirst(DemoSeed)
  /\ trDemo' = NoCalls(DemoSeed)
  /\ idx' = 1
  /\ pc' = "demo_translate"
  /\ UNCHANGED nonFlowVars
  /\ UNCHANGED <<OPS_KEY, OPS_SECRET, route, page, size, token, range_header,
                 xml_text, items, total, resp, source, tokenCalls, searchCalls, trLive>>

\* One turn of _demo_pool's translation loop.
TranslateDemo ==
  /\ pc = "demo_translate"
  /\ idx <= Len(pool)
  /\ \E o1 \in TrOutcomes, o2 \in TrOutcomes :
       pool' = [pool EXCEPT ![idx] = TranslateItem(pool[idx], o1, o2)]
  /\ trDemo' = [trDemo EXCEPT ![idx] = CountItem(trDemo[idx], pool[idx])]
  /\ idx' = idx + 1
  /\ UNCHANGED nonFlowVars
  /\ UNCHANGED <<OPS_KEY, OPS_SECRET, pc, route, page, size, token, range_header,
                 xml_text, items, total, resp, source, tokenCalls, searchCalls, trLive>>

\* The rest of _paginate_demo; the handler returns its response.
ReturnDemo ==
  /\ pc = "demo_translate"
  /\ idx > Len(pool)
  /\ resp' = Some(_paginate_demo(pool, page, size))
  /\ source' = "demo"
  /\ pc' = "done"
  /\ UNCHANGED nonFlowVars
  /\ UNCHANGED <<OPS_KEY, OPS_SECRET, route, page, size, token, range_header,
                 xml_text, items, total, idx, pool, tokenCalls, searchCalls,
                 trLive, trDemo>>

FlowNext ==
  \/ search_get
  \/ search_post
  \/ GetTokenNoCredentials
  \/ GetTokenExchange
  \/ _ops_search_raw
  \/ ParseReply
  \/ TranslateLive
  \/ ReturnLive
  \/ DemoPoolSort
  \/ TranslateDemo
  \/ ReturnDemo

vars == <<flowVars, walkVars, dateVars, parseVars, clipVars>>

Init == FlowInit /\ WalkIdle /\ DateIdle /\ ParseIdle /\ ClipIdle

Next == FlowNext

Spec == Init /\ [][Next]_vars

---------------------------------------------------------------------------
(* The page walk: a caller with no credentials configured asks for pages   *)
(* 1, 2, ... of one size; every request takes the fallback path            *)
(* (_get_ops_token returns None, fetch_real_patents returns None, the      *)
(* handler returns _paginate_demo(page, size)).                            *)

\* ceil(N / S) for the pool's N records.
LastPage(S) == (Len(DemoSeed) + S - 1) \div S

WalkSizes == (1 .. MaxSize) \cup {DEFAULT_SIZE}

WalkInit ==
  /\ walkSize \in WalkSizes
  /\ walkPage = 1
  /\ walkLog = <<>>
  /\ OPS_KEY = None /\ OPS_SECRET = None /\ FlowIdle
  /\ DateIdle /\ ParseIdle /\ ClipIdle

\* One request of the walk, start to finish.
WalkRequest ==
  /\ walkPage <= LastPage(walkSize)
  /\ \E outs \in [DOMAIN DemoSeed -> TrOutcomes \X TrOutcomes] :
       walkLog' = Append(walkLog, _paginate_demo(_demo_pool(outs), walkPage, walkSize))
  /\ walkPage' = walkPage + 1
  /\ UNCHANGED <<walkSize, flowVars, dateVars, parseVars, clipVars>>

WalkNext == WalkRequest

SpecWalk == WalkInit /\ [][WalkNext]_vars

---------------------------------------------------------------------------
(* The date normaliser on its own.                                         *)

SampleYears == {1901, 2024, 2025}

YYYY(y) == Digits4(y)
YYYYMM(y, m) == Digits4(y) \o Digits2(m)
YYYYMMDD(y, m, d) == Digits4(y) \o Digits2(m) \o Digits2(d)
YYYY_MM_DD(y, m, d) == Digits4(y) \o <<"-">> \o Digits2(m) \o <<"-">> \o Digits2(d)

SupportedDates ==
  {YYYY(y) : y \in SampleYears}
  \cup {YYYYMM(y, m) : y \in SampleYears, m \in 1 .. 12}
  \cup UNION {{YYYYMMDD(y, m, d), YYYY_MM_DD(y, m, d)} :
                y \in SampleYears, m \in 1 .. 12, d \in 1 .. 28}
  \cup UNION {{YYYYMMDD(y, m, DaysInMonth(y, m)), YYYY_MM_DD(y, m, DaysInMonth(y, m))} :
                y \in SampleYears, m \in 1 .. 12}

OtherDates ==
  { <<>>,
    <<"n", "o", "t", "-", "a", "-", "d", "a", "t", "e">>,
    <<"2", "0", "2">>,
    <<"2", "0", "2", "5", "-", "1", "3", "-", "0", "1">>,
    <<"2", "0", "2", "5", "/", "0", "1", "/", "0", "5">>,
    <<"2", "0", "2", "5", "0", "1", "0", "5", "1">>,
    <<"0", "1", "-", "0", "5", "-", "2", "0", "2", "5">>,
    YYYYMMDD(2025, 2, 30),
    YYYY_MM_DD(2025, 2, 29),
    YYYYMMDD(2025, 13, 1),
    YYYYMMDD(2025, 0, 10) }

DateInputs ==
  {None} \cup {Some(t) : t \in SupportedDates \cup OtherDates}

DateInit ==
  /\ raw \in DateInputs
  /\ parsed = None
  /\ iso = None
  /\ OPS_KEY = None /\ OPS_SECRET = None /\ FlowIdle
  /\ WalkIdle /\ ParseIdle /\ ClipIdle

NormalizeDate ==
  /\ parsed = None
  /\ parsed' = Some(_parse_date_safe(raw))
  /\ iso' = Some(_fmt_date_iso(raw))
  /\ UNCHANGED <<raw, flowVars, walkVars, parseVars, clipVars>>

DateNext == NormalizeDate

SpecDate == DateInit /\ [][DateNext]_vars

---------------------------------------------------------------------------
(* The parser on its own: documents that differ in their date.             *)

MaxParseDocs == 3

ParseDates ==
  {None,
   Some(<<"g", "a", "r", "b", "a", "g", "e">>),
   Some(YYYYMMDD(2025, 1, 5)),
   Some(YYYY_MM_DD(2024, 12, 31)),
   Some(YYYYMM(2024, 6)),
   Some(YYYYMM(2024, 11)),
   Some(YYYY(2024))}

\* The k-th document of a reply: its doc-number is k.
DocDated(k, date_) ==
  [country |-> Some(Txt2("E", "P")), docnum |-> Some(Digits2(k)),
   kind |-> Some(Txt2("A", "1")), date |-> date_,
   titles |-> <<[lang |-> "en", text |-> Some(Txt1("T"))]>>,
   abstracts |-> <<>>]

ParseInit ==
  /\ \E ds \in SeqsUpTo(ParseDates, MaxParseDocs) :
       parse_in = Some(Xml([count |-> Some(Digits2(Len(ds))), size |-> None,
                            nested |-> None],
                           [k \in DOMAIN ds |-> DocDated(k, ds[k])]))
  /\ parse_out = None
  /\ OPS_KEY = None /\ OPS_SECRET = None /\ FlowIdle
  /\ WalkIdle /\ DateIdle /\ ClipIdle

ParseXml ==
  /\ parse_out = None
  /\ parse_out' = Some(_parse_ops_xml(Val(parse_in)))
  /\ UNCHANGED <<parse_in, flowVars, walkVars, dateVars, clipVars>>

ParseNext == ParseXml

SpecParse == ParseInit /\ [][ParseNext]_vars

---------------------------------------------------------------------------
(* The text clipper on its own.                                            *)

MaxTextLen == 4
MaxClipN == 3

ClipAlphabet == {"a", " ", Ellipsis}

ClipTexts == {None} \cup {Some(t) : t \in SeqsUpTo(ClipAlphabet, MaxTextLen)}

ClipInit ==
  /\ clip_text \in ClipTexts
  /\ clip_n \in 1 .. MaxClipN
  /\ clipped = None
  /\ reclipped = None
  /\ OPS_KEY = None /\ OPS_SECRET = None /\ FlowIdle
  /\ WalkIdle /\ DateIdle /\ ParseIdle

ClipOnce ==
  /\ clipped = None
  /\ clipped' = Some(_clip(clip_text, clip_n))
  /\ UNCHANGED <<clip_text, clip_n, reclipped, flowVars, walkVars, dateVars, parseVars>>

ClipAgain ==
  /\ clipped # None
  /\ reclipped = None
  /\ reclipped' = Some(_clip(Val(clipped), clip_n))
  /\ UNCHANGED <<clip_text, clip_n, clipped, flowVars, walkVars, dateVars, parseVars>>

ClipNext == ClipOnce \/ ClipAgain

SpecClip == ClipInit /\ [][ClipNext]_vars

---------------------------------------------------------------------------
(* The properties.                                                         *)

Done == pc = "done"

\* C1: in a request that obtained a token, when the search call raised or
\* the parse gave a total of zero (an unparseable reply included), the
\* response returned is the demo pool's page, not the live parse result.
FallbackOnUpstreamFailure ==
  (Done /\ Truthy(token) /\ (IsNone(xml_text) \/ total = 0))
    => (source = "demo" /\ Val(resp) = _paginate_demo(pool, page, size))

\* C2: a response to a request whose page and size are in their documented
\* ranges has at most size items, and a nextPage exactly when
\* (page-1)*size + (items returned) < total.
ResponseWindowInvariant ==
  (Done /\ page >= 1 /\ size \in 1 .. DEFAULT_SIZE)
    => LET r == Val(resp)
       IN  /\ Len(r.items) <= r.size
           /\ (~IsNone(r.nextPage)) <=> ((r.page - 1) * r.size + Len(r.items) < r.total)

\* C3: the size paginated with and reported lies in [1, 25] and the page
\* reported is at least 1, whatever the caller supplied.
SizeClamped ==
  Done => /\ size \in 1 .. DEFAULT_SIZE
          /\ Val(resp).size \in 1 .. DEFAULT_SIZE
          /\ Val(resp).page >= 1

Pns(its) == [i \in DOMAIN its |-> its[i].publicationNumber]

RECURSIVE ConcatItems(_)
ConcatItems(log) ==
  IF log = <<>> THEN <<>>
  ELSE ConcatItems(SubSeq(log, 1, Len(log) - 1)) \o log[Len(log)].items

\* C4: on the fallback path, for any page size S >= 1, the items of pages
\* 1..ceil(N/S), concatenated, are the pool's N records in order, none
\* twice and none missing; every response reports total = N; nextPage is
\* page+1 before page ceil(N/S) and absent on it.
WalkReconstructsPool ==
  LET N     == Len(DemoSeed)
      order == Pns(SortNewestFirst(DemoSeed))
      got   == Pns(ConcatItems(walkLog))
  IN  /\ \A k \in DOMAIN walkLog :
           /\ walkLog[k].total = N
           /\ walkLog[k].page = k
           /\ walkLog[k].nextPage = (IF k < LastPage(walkSize) THEN Some(k + 1) ELSE None)
      /\ got = SubSeq(order, 1, Min(N, Len(walkLog) * walkSize))
      /\ \A i, j \in DOMAIN got : i # j => got[i] # got[j]
      /\ (walkSize > 0 /\ Len(walkLog) = LastPage(walkSize)) => got = order

\* C4's case: a finished walk of more than one page whose last page is
\* not full.
WalkComplete ==
  /\ Len(walkLog) = LastPage(walkSize)
  /\ Len(walkLog) > 1
  /\ Len(walkLog[Len(walkLog)].items) < walkSize
  /\ IsNone(walkLog[Len(walkLog)].nextPage)

\* The date a string in one of the four supported formats denotes.
AllDigits(t, lo, hi) == \A i \in lo .. hi : IsDigit(t[i])
Num(t, lo, hi) == ParseInt(SubSeq(t, lo, hi))
CalendarDate(y, m, d) ==
  IF y >= 1 /\ m \in 1 .. 12 /\ d >= 1 /\ d <= DaysInMonth(y, m)
  THEN Some(datetime(y, m, d)) ELSE None

DenotedDate(t) ==
  CASE Len(t) = 4 /\ AllDigits(t, 1, 4) -> CalendarDate(Num(t, 1, 4), 1, 1)
    [] Len(t) = 6 /\ AllDigits(t, 1, 6) -> CalendarDate(Num(t, 1, 4), Num(t, 5, 6), 1)
    [] Len(t) = 8 /\ AllDigits(t, 1, 8) ->
         CalendarDate(Num(t, 1, 4), Num(t, 5, 6), Num(t, 7, 8))
    [] Len(t) = 10 /\ AllDigits(t, 1, 4) /\ t[5] = "-" /\ AllDigits(t, 6, 7)
         /\ t[8] = "-" /\ AllDigits(t, 9, 10) ->
         CalendarDate(Num(t, 1, 4), Num(t, 6, 7), Num(t, 9, 10))
    [] OTHER -> None

DenotedBy(r) == IF IsNone(r) THEN None ELSE DenotedDate(Val(r))

\* C5: for a string in a supported format, _fmt_date_iso is the canonical
\* YYYY-MM-DD of its year, month and day (a missing month or day is 01);
\* for every other input _fmt_date_iso is None and _parse_date_safe is
\* the minimum sort key.
DateNormalizerContract ==
  (~IsNone(parsed)) =>
    LET t == DenotedBy(raw)
    IN  IF ~IsNone(t)
        THEN Val(iso) = Some(strftime_iso(Val(t)))
        ELSE Val(iso) = None /\ Val(parsed) = Sentinel

\* The date the upstream gave for a parsed record: its document is the one
\* whose doc-number the record's publicationNumber carries.
SourceDate(it) ==
  LET docs == Val(parse_in).docs
      k    == CHOOSE i \in DOMAIN docs :
                ParseDoc(docs[i]).publicationNumber = it.publicationNumber
  IN  DenotedBy(IF Truthy(docs[k].date) THEN Some(Strip(Val(docs[k].date))) ELSE None)

\* C6: in the parser's list, every record whose date is malformed or
\* missing comes after every record with a valid date, and the records
\* with valid dates are in true newest-first order.
ParsedNewestFirst ==
  (~IsNone(parse_out)) =>
    LET out == Val(parse_out).items
    IN  \A i, j \in DOMAIN out :
          i < j =>
            /\ (~IsNone(SourceDate(out[j]))) => ~IsNone(SourceDate(out[i]))
            /\ (~IsNone(SourceDate(out[i])) /\ ~IsNone(SourceDate(out[j])))
                 => DateOrd(Val(SourceDate(out[i]))) >= DateOrd(Val(SourceDate(out[j])))

\* C7: every item of every response has a non-empty publicationNumber and
\* a non-empty titleOriginal.
ItemsIdentified ==
  Done => \A i \in DOMAIN Val(resp).items :
            /\ Val(resp).items[i].publicationNumber # <<>>
            /\ Val(resp).items[i].titleOriginal # <<>>

\* C8: the string _clip(text, n) returns has at most n characters, the
\* truncation marker included.
ClipWithinLimit ==
  (~IsNone(clipped) /\ ~IsNone(Val(clipped))) => Len(Val(Val(clipped))) <= clip_n

\* C9: _clip(_clip(text, n), n) = _clip(text, n).
ClipIdempotent ==
  (~IsNone(reclipped)) => Val(reclipped) = Val(clipped)

AtMostOnce(calls) ==
  \A i \in DOMAIN calls : calls[i].title <= 1 /\ calls[i].abstract <= 1

Untouched(calls) ==
  \A i \in DOMAIN calls : calls[i].title = 0 /\ calls[i].abstract = 0

\* C10: within one request there is at most one token exchange (none when
\* a credential is absent), at most one search call (only with a token),
\* at most one translator call per title and per abstract of a record, and
\* no translator call for a live set when the fallback answers.
OneAttemptPerDependency ==
  /\ tokenCalls <= 1
  /\ (~Truthy(OPS_KEY) \/ ~Truthy(OPS_SECRET)) => tokenCalls = 0
  /\ searchCalls <= 1
  /\ searchCalls = 1 => (tokenCalls = 1 /\ Truthy(token))
  /\ AtMostOnce(trLive)
  /\ AtMostOnce(trDemo)
  /\ pc \in {"demo", "demo_translate"} \/ source = "demo" => Untouched(trLive)
  /\ source = "live" => Untouched(trDemo)

\* C10's case: a live response, after one exchange and one search, one of
\* whose records had a translation fail and was not tried again.
FailedTranslationNotRetried ==
  /\ Done /\ source = "live"
  /\ tokenCalls = 1 /\ searchCalls = 1
  /\ \E i \in DOMAIN items :
       /\ trLive[i].title = 1 /\ trLive[i].abstract = 1
       /\ IsNone(items[i].titleRu) /\ ~IsNone(items[i].abstractRu)

====
